---- MODULE Spec2Model ----
(***************************************************************************)
(* Model of app.py: the GitHub -> JIRA issue importer.                     *)
(*                                                                         *)
(* One process (main) runs to exit; the operator may run it again.  The    *)
(* two external services are part of the state: the source tracker         *)
(* (ghIssues, read by `gh issue list`, written by `gh issue edit`) and the *)
(* destination tracker (jira, read by the search request, written by the   *)
(* issue-create and comment requests).  Every request the importer sends   *)
(* is appended to log, together with the response it got.                  *)
(*                                                                         *)
(* Text is a sequence of one-character strings, so that "contains a        *)
(* space" and "prefix of length n" are things the model can evaluate.      *)
(***************************************************************************)
EXTENDS Integers, Sequences, FiniteSets, TLC

\* ---------------------------------------------------------------- bounds
MaxIssues == 2      \* most issues the source repository holds
MaxRuns == 2        \* how many times the operator runs the importer

\* ------------------------------------------------------- program literals
None == "None"
NoException == "none"

_null_panda_email == "noreply@redpanda.com"
_jira_project == "CORE"
_jira_url == "https://jira"

KindBug == <<"k", "i", "n", "d", "/", "b", "u", "g">>
KindBackport == <<"k", "i", "n", "d", "/", "b", "a", "c", "k", "p", "o", "r", "t">>
message == "JIRA Issue created from GitHub issue."

\* ------------------------------------------------------------ environment
\* Labels, bodies and comments the source issues are built from.
AreaLabel == <<"a", "r", "e", "a">>
SpaceLabel == <<"g", "o", "o", "d", " ", "f", "i", "r", "s", "t">>
ShortBody == <<"o", "k">>
LongBody == <<"c", "r", "a", "s", "h", "e", "s">>

\* The identity-mapping CSV (Github Username, Name, Email) and the accounts
\* the destination knows.  alice resolves, bob's address is unknown to the
\* destination, carol has no row at all.
UserMappingRows ==
    << [gh |-> "alice", name |-> "Alice", email |-> "alice@redpanda.com"],
       [gh |-> "bob", name |-> "Bob", email |-> "bob@redpanda.com"] >>
JiraDirectory ==
    [e \in {"alice@redpanda.com", _null_panda_email} |->
        IF e = _null_panda_email THEN "acct-nullpanda" ELSE "acct-alice"]

MkLabels(ls) == [i \in DOMAIN ls |-> [name |-> ls[i]]]
MkAssignees(hs) == [i \in DOMAIN hs |-> [login |-> hs[i]]]
MkComments(cs) == [i \in DOMAIN cs |-> [body |-> cs[i]]]

\* The shapes of source issue the repository may hold.
Profiles ==
    << [labels |-> MkLabels(<<KindBug>>), assignees |-> MkAssignees(<<>>),
        body |-> ShortBody, comments |-> MkComments(<<"repro steps">>)],
       [labels |-> MkLabels(<<SpaceLabel, AreaLabel>>),
        assignees |-> MkAssignees(<<"carol">>),
        body |-> LongBody, comments |-> MkComments(<<"first", "second">>)],
       [labels |-> MkLabels(<<KindBackport, KindBug>>),
        assignees |-> MkAssignees(<<"alice", "bob">>),
        body |-> ShortBody, comments |-> MkComments(<<>>)],
       [labels |-> MkLabels(<<>>), assignees |-> MkAssignees(<<"bob">>),
        body |-> LongBody, comments |-> MkComments(<<"first", "second">>)] >>

IssueUrl(n) == "https://github.com/org/repo/issues/" \o ToString(n)

Issue(u, p) ==
    [url |-> IssueUrl(u), number |-> u, title |-> "title", body |-> Profiles[p].body,
     labels |-> Profiles[p].labels, assignees |-> Profiles[p].assignees,
     comments |-> Profiles[p].comments]

\* Every state the source repository can be in before the first run: up to
\* MaxIssues open issues, issue i having number i.
Repositories ==
    UNION { { [i \in 1..n |-> Issue(i, ps[i])] : ps \in [1..n -> DOMAIN Profiles] }
            : n \in 0..MaxIssues }

VARIABLES
    pc,             \* position of the process
    run,            \* number of the current run
    exitCode,       \* exit code of the current run, -1 while it runs
    raised,         \* the exception that ended the current run
    ghIssues,       \* source tracker: the open issues
    jira,           \* destination tracker: the issues created, id = index
    log,            \* every request sent so far, with its response
    tmpFiles,       \* temporary files that exist on disk
    issues,         \* run(): the fetched issue list
    pos,            \* _import_issues: position in reversed(issues)
    cpos,           \* _import_issues: position in reversed(issue["comments"])
    _null_panda_user, _mapped_users,
    labels, issue_type, assignee, issue_key, issue_id,
    tf              \* _import_issues: name of the temporary file

vars == << pc, run, exitCode, raised, ghIssues, jira, log, tmpFiles, issues,
           pos, cpos, _null_panda_user, _mapped_users, labels, issue_type,
           assignee, issue_key, issue_id, tf >>

env == << ghIssues, jira, log, tmpFiles >>
identity == << _null_panda_user, _mapped_users >>
locals == << labels, issue_type, assignee, issue_key, issue_id, tf >>

\* ---------------------------------------------------------- pure helpers
\* reversed() left out: the sequence in the order given
Reversed_forward(s) == s

\* Python's reversed().
Reversed(s) == [i \in 1..Len(s) |-> s[Len(s) + 1 - i]]

\* dict.get(key, default)
DictGet(d, k, default) == IF k \in DOMAIN d THEN d[k] ELSE default

\* _get_jira_user: the first match's accountId, or NoUserExists.
_get_jira_user(directory, email) ==
    IF email \in DOMAIN directory THEN directory[email] ELSE "NoUserExists"

_get_jira_user_with_default(directory, email, default_user) ==
    IF _get_jira_user(directory, email) = "NoUserExists"
    THEN default_user
    ELSE _get_jira_user(directory, email)

RECURSIVE _create_user_mapping(_, _, _)
_create_user_mapping(directory, user_mapper, default_user) ==
    IF user_mapper = <<>>
    THEN <<>>
    ELSE LET n == Len(user_mapper)
             row == user_mapper[n]
             rest == _create_user_mapping(directory, SubSeq(user_mapper, 1, n - 1),
                                          default_user)
         IN  [h \in DOMAIN rest \cup {row.gh} |->
                IF h = row.gh
                THEN _get_jira_user_with_default(directory, row.email, default_user)
                ELSE rest[h]]

\* labels = [label['name'] for label in issue["labels"]]
LabelNames(issue) == [i \in DOMAIN issue.labels |-> issue.labels[i].name]

Contains(seq, x) == \E i \in DOMAIN seq : seq[i] = x

\* the type test reading the wrong label
IssueType_backport(ls) == IF Contains(ls, KindBackport) THEN "Bug" ELSE "Task"

\* issue_type = "Bug" if 'kind/bug' in labels else "Task"
IssueType(ls) == IF Contains(ls, KindBug) THEN "Bug" ELSE "Task"

\* the lookup of the assignee with no default
ResolveAssignee_nodefault(issue, mapped_users, null_panda_user) ==
    IF Len(issue.assignees) > 0
    THEN DictGet(mapped_users, issue.assignees[1].login, None)
    ELSE None

\* the assignee of _import_issues: the first assignee, mapped
ResolveAssignee(issue, mapped_users, null_panda_user) ==
    IF Len(issue.assignees) > 0
    THEN DictGet(mapped_users, issue.assignees[1].login, null_panda_user)
    ELSE None

\* _create_issue: the payload of the issue-create request
_create_issue(description, summary, type, ls, project_key, issue_url, who) ==
    LET fields == [description |-> description, summary |-> summary,
                   issuetype |-> [name |-> type], labels |-> ls,
                   project |-> [key |-> project_key],
                   customfield_10052 |-> issue_url]
    IN  [fields |-> IF who # None
                    THEN fields @@ [assignee |-> [id |-> who]]
                    ELSE fields]

\* the search filtering on the summary instead of the external-link field
_jira_issue_linked_to_gh_issue_summary(dest, gh_url) ==
    Cardinality({ i \in DOMAIN dest :
                    /\ dest[i].fields.project.key = _jira_project
                    /\ dest[i].fields.summary = gh_url }) # 0

\* _jira_issue_linked_to_gh_issue: total_issues != 0 for the search on the
\* project and the external-link field
_jira_issue_linked_to_gh_issue(dest, gh_url) ==
    Cardinality({ i \in DOMAIN dest :
                    /\ dest[i].fields.project.key = _jira_project
                    /\ dest[i].fields.customfield_10052 = gh_url }) # 0

\* the resubmission test without the look at the errors' field
ShouldResubmit_anyerror(who, resp) ==
    /\ who # None
    /\ ~resp.ok
    /\ "errors" \in DOMAIN resp.json

\* the resubmission test of _import_issues
ShouldResubmit(who, resp) ==
    /\ who # None
    /\ ~resp.ok
    /\ "errors" \in DOMAIN resp.json
    /\ "assignee" \in resp.json.errors

\* insert_jira_link = 'kind/backport' not in labels
InsertJiraLink(ls) == ~Contains(ls, KindBackport)

IssueKey(id) == "CORE-" \o ToString(id)

\* issue["body"] + "\n\nJIRA Link: [key](url/browse/key)"
BodyWithLink(body, key) ==
    body \o << "\n", "\n", "JIRA Link: [", key, "](", _jira_url, "/browse/", key, ")" >>

\* the handler of main catching every exception of run()
main_catches_all(exc, inRun) == inRun

\* except RuntimeError in main, around run() only
main_catches(exc, inRun) == inRun /\ exc = "RuntimeError"

\* the code main / __main__ hands to sys.exit
sys_exit_code(exc, inRun) ==
    IF exc = NoException \/ main_catches(exc, inRun) THEN 0 ELSE 1

\* --------------------------------------------------- destination responses
CreateOutcomes == {"created", "assignee_error", "other_error", "no_errors_key"}

CreateResponse(outcome, id) ==
    CASE outcome = "created" ->
            [ok |-> TRUE, json |-> [id |-> id, key |-> IssueKey(id)]]
      [] outcome = "assignee_error" ->
            [ok |-> FALSE, json |-> [errorMessages |-> {}, errors |-> {"assignee"}]]
      [] outcome = "other_error" ->
            [ok |-> FALSE, json |-> [errorMessages |-> {}, errors |-> {"summary"}]]
      [] OTHER ->
            [ok |-> FALSE, json |-> [errorMessages |-> {"forbidden"}]]

Entry(op, url, data, resp) ==
    [run |-> run, op |-> op, url |-> url, data |-> data, resp |-> resp]

\* ------------------------------------------------------------------ state
Init ==
    /\ pc = "main"
    /\ run = 1
    /\ exitCode = -1
    /\ raised = NoException
    /\ ghIssues \in Repositories
    /\ jira = <<>>
    /\ log = <<>>
    /\ tmpFiles = {}
    /\ issues = <<>>
    /\ pos = 0
    /\ cpos = 0
    /\ _null_panda_user = None
    /\ _mapped_users = <<>>
    /\ labels = <<>>
    /\ issue_type = None
    /\ assignee = None
    /\ issue_key = None
    /\ issue_id = 0
    /\ tf = 0

\* The process ends with exception exc (NoException: main returned).
Terminate(exc, inRun) ==
    /\ pc' = "exited"
    /\ raised' = exc
    /\ exitCode' = sys_exit_code(exc, inRun)

\* for issue in reversed(issues): the issue of the current iteration
CurrentIssue == Reversed(issues)[pos]

\* _add_comment_to_issue, as the destination stores it
StoreComment(dest, id, comment) ==
    [dest EXCEPT ![id].comments = Append(@, comment)]

\* ---------------------------------------------------------------- actions
\* main up to the construction of the importer: the header assertion, the
\* lookup of the fallback account, the identity mapping.
Startup ==
    /\ pc = "main"
    /\ \E headerOk \in BOOLEAN,
          directory \in { JiraDirectory,
                          [e \in DOMAIN JiraDirectory \ {_null_panda_email} |->
                              JiraDirectory[e]] } :
          IF ~headerOk
          THEN /\ Terminate("AssertionError", FALSE)
               /\ UNCHANGED identity
          ELSE IF _get_jira_user(directory, _null_panda_email) = "NoUserExists"
          THEN /\ Terminate("NoUserExists", FALSE)
               /\ UNCHANGED identity
          ELSE /\ _null_panda_user' = _get_jira_user(directory, _null_panda_email)
               /\ _mapped_users' =
                    _create_user_mapping(directory, UserMappingRows,
                                         _get_jira_user(directory, _null_panda_email))
               /\ pc' = "run"
               /\ UNCHANGED << raised, exitCode >>
    /\ UNCHANGED << run, env, issues, pos, cpos, locals >>

\* run: _collect_issues, then the entry of _import_issues.
CollectIssues ==
    /\ pc = "run"
    /\ \E cmdOk \in BOOLEAN :
          IF cmdOk
          THEN /\ issues' = ghIssues
               /\ pos' = 1
               /\ pc' = "check"
               /\ UNCHANGED << raised, exitCode >>
          ELSE /\ Terminate("CalledProcessError", TRUE)
               /\ UNCHANGED << issues, pos >>
    /\ UNCHANGED << run, env, cpos, identity, locals >>

\* One iteration's head: the duplicate check, then either the skip or the
\* classification and assignee resolution.
SkipCheck ==
    /\ pc = "check"
    /\ pos <= Len(issues)
    /\ \E sent \in BOOLEAN :
          IF ~sent
          THEN /\ Terminate("ConnectionError", TRUE)
               /\ UNCHANGED << log, pos, labels, issue_type, assignee >>
          ELSE LET issue == CurrentIssue
                   issue_exists == _jira_issue_linked_to_gh_issue(jira, issue.url)
               IN  /\ log' = Append(log, Entry("search", issue.url, issue.url,
                                               [exists |-> issue_exists]))
                   /\ IF issue_exists
                      THEN /\ pos' = pos + 1
                           /\ UNCHANGED << pc, labels, issue_type, assignee >>
                      ELSE /\ labels' = LabelNames(issue)
                           /\ issue_type' = IssueType(LabelNames(issue))
                           /\ assignee' = ResolveAssignee(issue, _mapped_users,
                                                          _null_panda_user)
                           /\ pc' = "create"
                           /\ pos' = pos
                   /\ UNCHANGED << raised, exitCode >>
    /\ UNCHANGED << run, ghIssues, jira, tmpFiles, issues, cpos, identity,
                    issue_key, issue_id, tf >>

\* The loop is exhausted: _import_issues, run and main return.
LoopEnd ==
    /\ pc = "check"
    /\ pos > Len(issues)
    /\ Terminate(NoException, TRUE)
    /\ UNCHANGED << run, env, issues, pos, cpos, identity, locals >>

\* What follows the last issue-create response: raise on "errors", else
\* read the key and id.
AfterCreate(response) ==
    IF "errors" \in DOMAIN response
    THEN /\ Terminate("RuntimeError", TRUE)
         /\ UNCHANGED << issue_key, issue_id >>
    ELSE IF "key" \notin DOMAIN response
    THEN /\ Terminate("KeyError", TRUE)
         /\ UNCHANGED << issue_key, issue_id >>
    ELSE /\ issue_key' = response.key
         /\ issue_id' = response.id
         /\ pc' = "provenance"
         /\ UNCHANGED << raised, exitCode >>

\* The issue-create request with assignee who, answered with outcome.
SendCreate(who, outcome) ==
    LET issue == CurrentIssue
        payload == _create_issue(issue.body, issue.title, issue_type, labels,
                                 _jira_project, issue.url, who)
        resp == CreateResponse(outcome, Len(jira) + 1)
    IN  /\ log' = Append(log, Entry("create", issue.url, payload, resp))
        /\ jira' = IF resp.ok
                   THEN Append(jira, [fields |-> payload.fields, comments |-> <<>>])
                   ELSE jira

\* The first issue-create request and the test for the resubmission.
Create ==
    /\ pc = "create"
    /\ \E sent \in BOOLEAN, outcome \in CreateOutcomes :
          IF ~sent
          THEN /\ Terminate("ConnectionError", TRUE)
               /\ UNCHANGED << log, jira, issue_key, issue_id >>
          ELSE /\ SendCreate(assignee, outcome)
               /\ IF ShouldResubmit(assignee, CreateResponse(outcome, Len(jira) + 1))
                  THEN /\ pc' = "resubmit"
                       /\ UNCHANGED << raised, exitCode, issue_key, issue_id >>
                  ELSE AfterCreate(CreateResponse(outcome, Len(jira) + 1).json)
    /\ UNCHANGED << run, ghIssues, tmpFiles, issues, pos, cpos, identity,
                    labels, issue_type, assignee, tf >>

\* The resubmission with the assignee cleared.
Resubmit ==
    /\ pc = "resubmit"
    /\ \E sent \in BOOLEAN, outcome \in CreateOutcomes :
          IF ~sent
          THEN /\ Terminate("ConnectionError", TRUE)
               /\ UNCHANGED << log, jira, issue_key, issue_id >>
          ELSE /\ SendCreate(None, outcome)
               /\ AfterCreate(CreateResponse(outcome, Len(jira) + 1).json)
    /\ UNCHANGED << run, ghIssues, tmpFiles, issues, pos, cpos, identity,
                    labels, issue_type, assignee, tf >>

\* The boilerplate comment, then the decision on the back-link.
ProvenanceComment ==
    /\ pc = "provenance"
    /\ \E sent \in BOOLEAN :
          IF ~sent
          THEN /\ Terminate("ConnectionError", TRUE)
               /\ UNCHANGED << log, jira, cpos >>
          ELSE /\ log' = Append(log, Entry("comment", CurrentIssue.url, message,
                                           [ok |-> TRUE]))
               /\ jira' = StoreComment(jira, issue_id, message)
               /\ cpos' = 1
               /\ pc' = IF InsertJiraLink(labels) THEN "tempfile" ELSE "replay"
               /\ UNCHANGED << raised, exitCode >>
    /\ UNCHANGED << run, ghIssues, tmpFiles, issues, pos, identity, locals >>

\* with tempfile.NamedTemporaryFile(delete=False): write, flush, close.
WriteTempFile ==
    /\ pc = "tempfile"
    /\ tf' = Cardinality(tmpFiles) + 1
    /\ tmpFiles' = tmpFiles \cup
                     { [name |-> Cardinality(tmpFiles) + 1,
                        content |-> BodyWithLink(CurrentIssue.body, issue_key)] }
    /\ pc' = "edit"
    /\ UNCHANGED << run, exitCode, raised, ghIssues, jira, log, issues, pos,
                    cpos, identity, labels, issue_type, assignee, issue_key,
                    issue_id >>

\* gh issue edit --body-file, then os.unlink when the command returned.
RunEdit ==
    /\ pc = "edit"
    /\ \E cmdOk \in BOOLEAN :
          LET u == CurrentIssue.url
              file == CHOOSE f \in tmpFiles : f.name = tf
          IN  /\ log' = Append(log, Entry("edit", u, file.content, [ok |-> cmdOk]))
              /\ IF cmdOk
                 THEN /\ ghIssues' = [i \in DOMAIN ghIssues |->
                                        IF ghIssues[i].url = u
                                        THEN [ghIssues[i] EXCEPT !.body = file.content]
                                        ELSE ghIssues[i]]
                      /\ tmpFiles' = tmpFiles \ {file}
                      /\ pc' = "replay"
                      /\ UNCHANGED << raised, exitCode >>
                 ELSE /\ Terminate("CalledProcessError", TRUE)
                      /\ UNCHANGED << ghIssues, tmpFiles >>
    /\ UNCHANGED << run, jira, issues, pos, cpos, identity, locals >>

\* for c in reversed(issue["comments"]): one comment
ReplayComment ==
    /\ pc = "replay"
    /\ cpos <= Len(CurrentIssue.comments)
    /\ \E sent \in BOOLEAN :
          IF ~sent
          THEN /\ Terminate("ConnectionError", TRUE)
               /\ UNCHANGED << log, jira, cpos >>
          ELSE LET c == Reversed(CurrentIssue.comments)[cpos]
               IN  /\ log' = Append(log, Entry("comment", CurrentIssue.url, c.body,
                                               [ok |-> TRUE]))
                   /\ jira' = StoreComment(jira, issue_id, c.body)
                   /\ cpos' = cpos + 1
                   /\ UNCHANGED << pc, raised, exitCode >>
    /\ UNCHANGED << run, ghIssues, tmpFiles, issues, pos, identity, locals >>

\* The comments are exhausted: log the success, next issue.
FinishIssue ==
    /\ pc = "replay"
    /\ cpos > Len(CurrentIssue.comments)
    /\ pos' = pos + 1
    /\ pc' = "check"
    /\ UNCHANGED << run, exitCode, raised, env, issues, cpos, identity, locals >>

\* The operator runs the importer again; both trackers keep their state.
Rerun ==
    /\ pc = "exited"
    /\ run < MaxRuns
    /\ run' = run + 1
    /\ pc' = "main"
    /\ exitCode' = -1
    /\ raised' = NoException
    /\ issues' = <<>>
    /\ pos' = 0
    /\ cpos' = 0
    /\ _null_panda_user' = None
    /\ _mapped_users' = <<>>
    /\ labels' = <<>>
    /\ issue_type' = None
    /\ assignee' = None
    /\ issue_key' = None
    /\ issue_id' = 0
    /\ tf' = 0
    /\ UNCHANGED env

Next ==
    \/ Startup
    \/ CollectIssues
    \/ SkipCheck
    \/ LoopEnd
    \/ Create
    \/ Resubmit
    \/ ProvenanceComment
    \/ WriteTempFile
    \/ RunEdit
    \/ ReplayComment
    \/ FinishIssue
    \/ Rerun

Spec == Init /\ [][Next]_vars

TypeOK ==
    /\ pc \in {"main", "run", "check", "create", "resubmit", "provenance",
               "tempfile", "edit", "replay", "exited"}
    /\ run \in 1..MaxRuns
    /\ exitCode \in {-1, 0, 1}

\* ------------------------------------------------- vocabulary of the claims
Writes == {"create", "comment", "edit"}

\* the source issue with url u
SourceIssue(u) == ghIssues[CHOOSE i \in DOMAIN ghIssues : ghIssues[i].url = u]

\* the place of url u in the order the fetch returns
FetchIndex(u) == CHOOSE i \in DOMAIN ghIssues : ghIssues[i].url = u

Urls == { ghIssues[i].url : i \in DOMAIN ghIssues }

\* positions in log of the requests of kind op sent in run r for url u
Sent(r, u, op) ==
    { i \in DOMAIN log : log[i].run = r /\ log[i].url = u /\ log[i].op = op }

\* the destination issues linked to url u
Linked(u) == { i \in DOMAIN jira : jira[i].fields.customfield_10052 = u }

IsPrefix(s, t) == Len(s) <= Len(t) /\ \A i \in DOMAIN s : s[i] = t[i]

\* the bodies of the comments sent in run r for url u, in the order sent
CommentsSent(r, u) ==
    LET sel == SelectSeq(log, LAMBDA e : e.run = r /\ e.url = u /\ e.op = "comment")
    IN  [i \in DOMAIN sel |-> sel[i].data]

HasAssigneeField(payload) == "assignee" \in DOMAIN payload.fields

\* the handle resolves to an account of its own
KnownIdentity(h) ==
    \E i \in DOMAIN UserMappingRows :
        UserMappingRows[i].gh = h /\ UserMappingRows[i].email \in DOMAIN JiraDirectory

FallbackAccount == JiraDirectory[_null_panda_email]

\* C1: in every run, an issue the duplicate check reports as linked gets no
\* issue-create request, no comment and no body edit in that run, and no
\* source url ever has two destination issues.
C1_LinkedIssueIsNotWritten ==
    /\ \A i \in DOMAIN log :
          (log[i].op = "search" /\ log[i].resp.exists) =>
              \A op \in Writes : Sent(log[i].run, log[i].url, op) = {}
    /\ \A u \in Urls : Cardinality(Linked(u)) <= 1

\* a second run has skipped an issue the first run created, and completed
C1_Witness ==
    /\ run = 2
    /\ pc = "exited"
    /\ raised = NoException
    /\ \E i \in DOMAIN log :
          /\ log[i].op = "search" /\ log[i].run = 2 /\ log[i].resp.exists
          /\ Sent(1, log[i].url, "create") # {}

\* C2: every issue-create request, first or resubmitted, has type Bug when
\* the source issue's labels contain kind/bug and type Task when not.
C2_TypeIsBugIffBugLabel ==
    \A i \in DOMAIN log :
        log[i].op = "create" =>
            LET names == LabelNames(SourceIssue(log[i].url))
                type == log[i].data.fields.issuetype.name
            IN  /\ (\E k \in DOMAIN names : names[k] = KindBug) => type = "Bug"
                /\ (\A k \in DOMAIN names : names[k] # KindBug) => type = "Task"

\* a Bug was created by a resubmission and a Task was created
C2_Witness ==
    /\ \E i, j \in DOMAIN log :
          /\ i < j
          /\ log[i].op = "create" /\ log[j].op = "create"
          /\ log[i].url = log[j].url /\ log[i].run = log[j].run
          /\ log[j].data.fields.issuetype.name = "Bug"
    /\ \E i \in DOMAIN log :
          log[i].op = "create" /\ log[i].data.fields.issuetype.name = "Task"

\* C3: no label sent in an issue-create request contains a space.
C3_NoSpaceInSentLabels ==
    \A i \in DOMAIN log :
        log[i].op = "create" =>
            \A k \in DOMAIN log[i].data.fields.labels :
                \A c \in DOMAIN log[i].data.fields.labels[k] :
                    log[i].data.fields.labels[k][c] # " "

\* C4 as stated: an issue with no assignee is created without an assignee
\* field, and an issue whose only assignee has no known identity is created
\* with the fallback account as its assignee.
C4_CreatedWithFallback ==
    \A i \in DOMAIN jira :
        LET src == SourceIssue(jira[i].fields.customfield_10052)
        IN  /\ Len(src.assignees) = 0 => "assignee" \notin DOMAIN jira[i].fields
            /\ (Len(src.assignees) = 1 /\ ~KnownIdentity(src.assignees[1].login)) =>
                  /\ "assignee" \in DOMAIN jira[i].fields
                  /\ jira[i].fields.assignee.id = FallbackAccount

\* C4, amended: a request for an issue with no assignee has no assignee
\* field; the first request for an issue whose first assignee has no known
\* identity carries the fallback account; no request carries anything but
\* the account of the first assignee; and the issue is created with that
\* assignee unless the destination rejected it, in which case the
\* resubmission creates it with no assignee field.
C4_AssigneeResolution ==
    \A i \in DOMAIN log :
        log[i].op = "create" =>
            LET src == SourceIssue(log[i].url)
                payload == log[i].data
                first == \A j \in Sent(log[i].run, log[i].url, "create") : i <= j
                account == IF KnownIdentity(src.assignees[1].login)
                           THEN JiraDirectory[
                                  UserMappingRows[
                                    CHOOSE k \in DOMAIN UserMappingRows :
                                      UserMappingRows[k].gh = src.assignees[1].login
                                  ].email]
                           ELSE FallbackAccount
            IN  /\ Len(src.assignees) = 0 => ~HasAssigneeField(payload)
                /\ (first /\ Len(src.assignees) > 0) =>
                      /\ HasAssigneeField(payload)
                      /\ payload.fields.assignee.id = account
                /\ ~first =>
                      /\ ~HasAssigneeField(payload)
                      /\ \E j \in Sent(log[i].run, log[i].url, "create") :
                            /\ j < i
                            /\ "errors" \in DOMAIN log[j].resp.json
                            /\ "assignee" \in log[j].resp.json.errors
                /\ log[i].resp.ok =>
                      \E k \in Linked(log[i].url) : jira[k].fields = payload.fields

\* one issue was created with no assignee field, another with the fallback
\* account as its assignee
C4_Witness ==
    /\ \E i \in DOMAIN jira :
          /\ Len(SourceIssue(jira[i].fields.customfield_10052).assignees) = 0
          /\ "assignee" \notin DOMAIN jira[i].fields
    /\ \E i \in DOMAIN jira :
          /\ Len(SourceIssue(jira[i].fields.customfield_10052).assignees) = 1
          /\ ~KnownIdentity(SourceIssue(jira[i].fields.customfield_10052).assignees[1].login)
          /\ "assignee" \in DOMAIN jira[i].fields
          /\ jira[i].fields.assignee.id = FallbackAccount

\* the character ceiling of the description
CharCeiling == 4
TruncationNotice == "The description was truncated."

\* C5: the description sent for a body longer than the ceiling is the
\* ceiling-length prefix of the body and the provenance comment of that
\* issue carries the truncation notice; a body within the ceiling is sent
\* whole, without the notice.
C5_LongBodyIsTruncated ==
    /\ pc = "provenance" =>
          LET body == CurrentIssue.body
              description == log[Len(log)].data.fields.description
          IN  /\ Len(body) > CharCeiling => description = SubSeq(body, 1, CharCeiling)
              /\ Len(body) <= CharCeiling => description = body
    /\ (pc \in {"tempfile", "replay"} /\ cpos = 1 /\ log[Len(log)].op = "comment") =>
          /\ Len(CurrentIssue.body) > CharCeiling =>
                log[Len(log)].data = message \o TruncationNotice
          /\ Len(CurrentIssue.body) <= CharCeiling => log[Len(log)].data = message

\* the comments of source issue u, last first, after the boilerplate
ExpectedComments(u) ==
    LET cs == SourceIssue(u).comments
    IN  <<message>> \o [k \in 1..Len(cs) |-> cs[Len(cs) + 1 - k].body]

\* C6: within a run the issues are written in the reverse of the fetch
\* order, all writes of one issue before any write of the next; an issue's
\* create requests come before its comments; and its comments are sent
\* one by one as the boilerplate followed by the fetched comments in
\* reverse.
C6_ReversedOrder ==
    /\ \A i, j \in DOMAIN log :
          (/\ i < j
           /\ log[i].run = log[j].run
           /\ log[i].op \in Writes
           /\ log[j].op \in Writes) =>
              /\ log[i].url # log[j].url =>
                    FetchIndex(log[i].url) > FetchIndex(log[j].url)
              /\ (log[i].url = log[j].url /\ log[j].op = "create") =>
                    log[i].op = "create"
    /\ \A r \in 1..run : \A u \in Urls :
          IsPrefix(CommentsSent(r, u), ExpectedComments(u))

\* one run imported two issues, one of them with two comments, to the end
C6_Witness ==
    \E r \in 1..run : \E u, v \in Urls :
        /\ u # v
        /\ Sent(r, u, "create") # {}
        /\ Len(SourceIssue(v).comments) >= 2
        /\ CommentsSent(r, v) = ExpectedComments(v)

EscapingExceptions ==
    {"AssertionError", "NoUserExists", "CalledProcessError", "KeyError",
     "ConnectionError"}

\* C7: a run that completed exits with 0; so does a run aborted by the
\* RuntimeError of a failed creation; the exit code is 1 exactly when
\* another exception ended the run.
C7_ExitCodes ==
    pc = "exited" =>
        /\ exitCode \in {0, 1}
        /\ raised = NoException => exitCode = 0
        /\ raised = "RuntimeError" =>
              /\ exitCode = 0
              /\ log[Len(log)].run = run
              /\ log[Len(log)].op = "create"
              /\ "errors" \in DOMAIN log[Len(log)].resp.json
        /\ exitCode = 1 <=> raised \in EscapingExceptions

\* a failed creation aborted the run, which exited with 0
C7_Witness ==
    /\ pc = "exited"
    /\ raised = "RuntimeError"
    /\ exitCode = 0
    /\ ~log[Len(log)].resp.ok

\* the response names the assignee field in its errors
NamesAssignee(resp) ==
    /\ ~resp.ok
    /\ "errors" \in DOMAIN resp.json
    /\ "assignee" \in resp.json.errors

\* C8: an issue gets at most two create requests in a run; the second
\* follows a first that carried an assignee and failed on the assignee
\* field, and carries none; every other failed creation is the last
\* request of its run.
C8_AtMostOneResubmission ==
    \A i \in DOMAIN log :
        log[i].op = "create" =>
            LET creates == Sent(log[i].run, log[i].url, "create")
                first == \A j \in creates : i <= j
                rejected == HasAssigneeField(log[i].data) /\ NamesAssignee(log[i].resp)
            IN  /\ Cardinality(creates) <= 2
                /\ ~first =>
                      /\ i - 1 \in creates
                      /\ HasAssigneeField(log[i - 1].data)
                      /\ NamesAssignee(log[i - 1].resp)
                      /\ ~HasAssigneeField(log[i].data)
                /\ (~log[i].resp.ok /\ ~(first /\ rejected)) =>
                      /\ \A j \in DOMAIN log : j > i => log[j].run > log[i].run
                      /\ run = log[i].run => pc = "exited"

\* a resubmission without assignee followed a rejected assignee, and failed
C8_Witness ==
    /\ pc = "exited"
    /\ Len(log) >= 2
    /\ log[Len(log)].op = "create"
    /\ log[Len(log) - 1].op = "create"
    /\ log[Len(log)].url = log[Len(log) - 1].url
    /\ log[Len(log)].run = log[Len(log) - 1].run
    /\ ~log[Len(log)].resp.ok

\* C9: outside the edit command itself, no temporary file exists.
C9_TempFileDeleted == pc # "edit" => tmpFiles = {}

\* run r created the destination issue of u and ended before all of its
\* comments were posted
Partial(r, u) ==
    /\ \E i \in Sent(r, u, "create") : log[i].resp.ok
    /\ Len(CommentsSent(r, u)) < Len(ExpectedComments(u))

\* C10 as stated: a later run that reaches a partially imported issue does
\* not create it again and posts again the comments already posted.
C10_CommentsDuplicated ==
    \A r \in 1..(run - 1) : \A u \in Urls :
        (/\ pc = "exited"
         /\ Partial(r, u)
         /\ Len(CommentsSent(r, u)) > 0
         /\ Sent(run, u, "search") # {}) =>
            /\ Sent(run, u, "create") = {}
            /\ IsPrefix(CommentsSent(r, u), CommentsSent(run, u))
            /\ CommentsSent(run, u) # <<>>

\* C10, amended: a later run that reaches a partially imported issue sends
\* no create request and no comment for it, so the destination issue keeps
\* exactly the comments posted before the abort.
C10_PartialImportIsLeftAlone ==
    \A r \in 1..(run - 1) : \A u \in Urls :
        (Partial(r, u) /\ Sent(run, u, "search") # {}) =>
            /\ Sent(run, u, "create") = {}
            /\ CommentsSent(run, u) = <<>>
            /\ Cardinality(Linked(u)) = 1
            /\ \A k \in Linked(u) : jira[k].comments = CommentsSent(r, u)

\* a second run has completed after skipping an issue whose first import
\* was aborted with some of its comments posted
C10_Witness ==
    /\ run = 2
    /\ pc = "exited"
    /\ raised = NoException
    /\ \E u \in Urls :
          /\ Partial(1, u)
          /\ Len(CommentsSent(1, u)) >= 2
          /\ Sent(2, u, "search") # {}

====
